---- MODULE Spec2Model ----
(***************************************************************************)
(* Court booking, cancellation, financial adjustment and waiting list of   *)
(* the squash club web application (src/app).  Every request handler is a  *)
(* worker that runs one database statement or one file operation per step, *)
(* so that requests interleave the way Flask's threaded workers do.        *)
(* Money is counted in cents.  SQL NULL / Python None is the empty tuple,   *)
(* a present value v is the one-element tuple <<v>>.                        *)
(***************************************************************************)
EXTENDS Integers, Sequences, FiniteSets, TLC

VARIABLES
    bookfile,     \* Bookfile table: row key <<day, time>> -> [player, code]
    clublist,     \* Clublist table: member -> [credit, book, named, email]
    courts,       \* Courts table: sequence of [ibooking, icancel] fee columns
    waitfile,     \* waiting_list.json: date key -> time key -> list of entries
    req,          \* per worker: the request it handles and its local variables
    internetlog,  \* Internetlog table: audit records, in insertion order
    outbox,       \* mail transport: send attempts [to, ok], in order
    nreq,         \* number of requests accepted so far
    last,         \* summary of the request that completed most recently
    faulty,       \* whether a database write of this run can fail
    tray          \* the tray launcher: server process, status, its two threads

vars == <<bookfile, clublist, courts, waitfile, req, internetlog, outbox, nreq, last,
          faulty, tray>>

----------------------------------------------------------------------------
(* Bounds of the model *)

MaxRequests == 2      \* requests accepted in one behaviour

\* two requests can be in flight at the same time
Workers == {1, 2}

----------------------------------------------------------------------------
(* Values *)

None == <<>>
Some(v) == <<v>>
IsNone(x) == x = None
Val(x) == x[1]

RESTRICTED == -9

Members == {1, 2, 3}
CourtNos == {1, 2, 3}
PeriodIds == {1, 2}

Days == {"yesterday", "today", "tomorrow"}
DayNo == [yesterday |-> 1, today |-> 2, tomorrow |-> 3]

\* datetime.now(): today, between the first and the second slot of the day
Clock == [day |-> "today", time |-> 15]

\* a date string: its format and the day it names
DateStr(fmt, day) == [fmt |-> fmt, day |-> day]

\* Python dict helpers
EmptyDict == [k \in {} |-> None]
Put(f, k, v) == [x \in (DOMAIN f) \cup {k} |-> IF x = k THEN v ELSE f[x]]
Del(f, k) == [x \in (DOMAIN f) \ {k} |-> f[x]]

----------------------------------------------------------------------------
(* dbconnection.py: reads *)

\* get_time_slots: the slot catalog of a day, sorted
get_time_slots == <<10, 20>>

\* time_slots[int(slot_id) - 1] with Python's indexing: a negative index
\* counts from the end, an index outside -len..len-1 raises IndexError
SlotLookup(slot_id) ==
    LET n == Len(get_time_slots)
        i == slot_id - 1
    IN  IF i >= 0 /\ i < n THEN Some(get_time_slots[i + 1])
        ELSE IF i < 0 /\ i >= -n THEN Some(get_time_slots[n + i + 1])
        ELSE None

\* booking_time < datetime.now(local_tz)
IsPast(day, time) ==
    \/ DayNo[day] < DayNo[Clock.day]
    \/ DayNo[day] = DayNo[Clock.day] /\ time < Clock.time

\* get_squash_members_profile: S_Credit NULL reads as 0.00
ProfileCredit(cl, m) ==
    IF IsNone(cl[m].credit) THEN 0 ELSE Val(cl[m].credit)

\* get_booking_cell: the occupant of a cell; no row and 0 both read as None
get_booking_cell(bf, row, court) ==
    IF row \notin DOMAIN bf THEN None
    ELSE LET v == bf[row].player[court]
         IN  IF v = Some(0) THEN None ELSE v

\* the values update_internet_bookings' WHERE clause accepts as empty
IsEmptyCell(v) == v = None \/ v = Some(RESTRICTED) \/ v = Some(0)

SetCell(bf, row, court, v) ==
    [bf EXCEPT ![row].player[court] = v]

\* an UPDATE that writes the cell and then reports the conflict
update_internet_bookings_clobber(bf, row, court, mem) ==
    IF row \in DOMAIN bf /\ IsEmptyCell(bf[row].player[court])
    THEN [status |-> "success", bookfile |-> SetCell(bf, row, court, Some(mem))]
    ELSE IF row \in DOMAIN bf
    THEN [status |-> "already_booked", bookfile |-> SetCell(bf, row, court, Some(mem))]
    ELSE [status |-> "already_booked", bookfile |-> bf]

\* the UPDATE without the emptiness condition in its WHERE clause
update_internet_bookings_unconditional(bf, row, court, mem) ==
    IF row \in DOMAIN bf
    THEN [status |-> "success", bookfile |-> SetCell(bf, row, court, Some(mem))]
    ELSE [status |-> "already_booked", bookfile |-> bf]

\* update_internet_bookings: one conditional UPDATE; rowcount 0 is reported
\* as already_booked whether the cell is taken or the row is missing
update_internet_bookings(bf, row, court, mem) ==
    IF row \in DOMAIN bf /\ IsEmptyCell(bf[row].player[court])
    THEN [status |-> "success", bookfile |-> SetCell(bf, row, court, Some(mem))]
    ELSE [status |-> "already_booked", bookfile |-> bf]

\* a release that reports success without emptying the cell
delete_internet_booking_keep_cell(bf, row, court, mem) ==
    IF row \in DOMAIN bf /\ bf[row].player[court] = Some(mem)
    THEN [ok |-> TRUE, bookfile |-> bf]
    ELSE [ok |-> FALSE, bookfile |-> bf]

\* the release without the member in its WHERE clause
delete_internet_booking_any_member(bf, row, court, mem) ==
    IF row \in DOMAIN bf /\ ~IsEmptyCell(bf[row].player[court])
    THEN [ok |-> TRUE, bookfile |-> SetCell(bf, row, court, None)]
    ELSE [ok |-> FALSE, bookfile |-> bf]

\* delete_internet_booking: one conditional UPDATE naming the occupant
delete_internet_booking(bf, row, court, mem) ==
    IF row \in DOMAIN bf /\ bf[row].player[court] = Some(mem)
    THEN [ok |-> TRUE, bookfile |-> SetCell(bf, row, court, None)]
    ELSE [ok |-> FALSE, bookfile |-> bf]

\* get_court_rates_per_minute: per court, the non-zero, non-null fee columns
Filtered(cols) == SelectSeq(cols, LAMBDA c : ~IsNone(c) /\ c # Some(0))

get_court_rates_per_minute(ct) ==
    LET one(c) == [bookings |-> Filtered(c.ibooking),
                   cancellations |-> Filtered(c.icancel)]
        all == [i \in 1..Len(ct) |-> one(ct[i])]
    IN  SelectSeq(all, LAMBDA d : Len(d.bookings) > 0 \/ Len(d.cancellations) > 0)

\* calculated_internet_bookings, cost lookup: the first fee of the first
\* court that has one; an empty fee list raises IndexError
CostFrom(data, cost_type) ==
    IF Len(data) = 0 THEN [kind |-> "none", cost |-> 0]
    ELSE LET fees == IF cost_type = "IBOOKING" THEN Head(data).bookings
                     ELSE Head(data).cancellations
         IN  IF Len(fees) = 0 THEN [kind |-> "raise", cost |-> 0]
             ELSE [kind |-> "cost", cost |-> Val(fees[1])]

\* the outcomes a database write can have: pyodbc.Error is caught by the
\* writer, which then reports failure
WriteOutcomes == IF faulty THEN {TRUE, FALSE} ELSE {TRUE}

----------------------------------------------------------------------------
(* Requests *)

NoDate == [fmt |-> "none", day |-> "today"]

NoSummary == [id |-> 0, kind |-> "none", mem |-> 0, row |-> <<"today", 0>>,
              court |-> 0, date |-> NoDate, resp |-> "none", solo |-> FALSE,
              before |-> 0, cost |-> 0]

Idle == [kind |-> "idle", pc |-> "idle", id |-> 0, mem |-> 0,
         row |-> <<"today", 0>>, court |-> 0, period |-> 0, date |-> NoDate,
         seen |-> <<>>, credit0 |-> 0, status |-> "none", current |-> 0, cost |-> 0,
         updated |-> 0, wl |-> EmptyDict, keep |-> <<>>, resp |-> "none",
         solo |-> FALSE, before |-> 0, raised |-> FALSE, limits |-> <<>>,
         end_date |-> NoDate, slot_id |-> None, prev |-> NoSummary]

InFlight(w) == req[w].pc \notin {"idle", "done"}

\* a request goes to the first worker that is free
CanAccept(w) ==
    /\ ~InFlight(w)
    /\ nreq < MaxRequests
    /\ \A v \in Workers : v < w => InFlight(v)

\* a request that starts while others run is not alone, and neither are they
Accept(w, r) ==
    LET alone == \A v \in Workers \ {w} : ~InFlight(v)
    IN  /\ req' = [v \in Workers |->
                     IF v = w THEN [r EXCEPT !.id = nreq + 1, !.solo = alone,
                                             !.prev = last]
                     ELSE IF InFlight(v) THEN [req[v] EXCEPT !.solo = FALSE]
                     ELSE req[v]]
        /\ nreq' = nreq + 1

\* the handler leaves its try block with a response: only the audit is left
Respond(r, resp) == [r EXCEPT !.resp = resp, !.pc = "audit"]

Summary(r) == [id |-> r.id, kind |-> r.kind, mem |-> r.mem, row |-> r.row,
               court |-> r.court, date |-> r.date, resp |-> r.resp,
               solo |-> r.solo,
               before |-> r.before, cost |-> r.cost]

DateOk(date) == date.fmt = "iso"

\* the requests of the booking scenarios: the three courts of today's second
\* slot, an elapsed slot of today, and a slot of tomorrow that has no row
Target(day, slot_id, court, period) ==
    [day |-> day, slot_id |-> slot_id, court |-> court, period |-> period]

Targets == {Target("today", 2, 1, 1), Target("today", 2, 2, 1),
            Target("today", 2, 3, 2), Target("today", 1, 1, 1),
            Target("tomorrow", 2, 1, 1)}

BookingMembers == {1, 2}

----------------------------------------------------------------------------
(* flask_bookings_app.py: add_booking *)

\* the balance a request finds on arrival; a request without a member has none
BalanceOf(cl, player_no) ==
    IF player_no \in DOMAIN cl THEN ProfileCredit(cl, player_no) ELSE 0

\* lines 390-426: parse the request, resolve the slot, reject past slots.  A
\* field that is absent reads as falsy: member or court 0, no date, no
\* slot_id; slot_id is the integer its text stands for
BeginAddBooking(w, player_no, date_container, slot_id, selected_court) ==
    LET sel == IF IsNone(slot_id) THEN None ELSE SlotLookup(Val(slot_id))
        r0 == [Idle EXCEPT !.kind = "add_booking", !.mem = player_no,
                           !.court = selected_court,
                           !.date = date_container, !.slot_id = slot_id,
                           !.before = BalanceOf(clublist, player_no)]
        r1 == IF player_no = 0 \/ date_container = NoDate \/ IsNone(slot_id)
                 \/ selected_court = 0
              THEN Respond(r0, "missing")
              ELSE IF ~DateOk(date_container) THEN Respond(r0, "bad_date")
              ELSE IF IsNone(sel) THEN Respond(r0, "bad_slot")
              ELSE LET r == [r0 EXCEPT !.row = <<date_container.day, Val(sel)>>]
                   IN  IF IsPast(date_container.day, Val(sel))
                       THEN Respond(r, "past")
                       ELSE [r EXCEPT !.pc = "add_credit"]
    IN  Accept(w, r1)

AddBookingRequest ==
    \E w \in Workers, m \in BookingMembers, t \in Targets :
        /\ CanAccept(w)
        /\ BeginAddBooking(w, m, DateStr("iso", t.day), Some(t.slot_id), t.court)
        /\ UNCHANGED <<bookfile, clublist, courts, waitfile, internetlog, outbox, last, faulty, tray>>

\* a credit check that lets a balance of exactly zero through
InsufficientCredit_negative_only(lights_credit) == lights_credit < 0

\* line 434: lights_credit <= 0.00
InsufficientCredit(lights_credit) == lights_credit <= 0

\* lines 428-435: the Lights Credit must be above zero
AddCredit ==
    \E w \in Workers :
        /\ req[w].pc = "add_credit"
        /\ LET credit == ProfileCredit(clublist, req[w].mem)
               r == [req[w] EXCEPT !.credit0 = credit]
           IN  req' = [req EXCEPT ![w] =
                         IF InsufficientCredit(credit) THEN Respond(r, "no_credit")
                         ELSE [r EXCEPT !.pc = "add_precheck"]]
        /\ UNCHANGED <<bookfile, clublist, courts, waitfile, internetlog, outbox, nreq, last, faulty, tray>>

\* a sentinel test that takes the restricted marker for a booking
SlotTaken_restricted(existing) == existing \notin {None, Some(0)}

\* line 441: existing not in (None, -9, 0)
SlotTaken(existing) == existing \notin {None, Some(RESTRICTED), Some(0)}

\* lines 437-442: the pre-check read of the cell
AddPrecheck ==
    \E w \in Workers :
        /\ req[w].pc = "add_precheck"
        /\ LET existing == get_booking_cell(bookfile, req[w].row, req[w].court)
           IN  req' = [req EXCEPT ![w] =
                         IF SlotTaken(existing)
                         THEN Respond(req[w], "already_booked")
                         ELSE [req[w] EXCEPT !.pc = "add_reserve"]]
        /\ UNCHANGED <<bookfile, clublist, courts, waitfile, internetlog, outbox, nreq, last, faulty, tray>>

\* lines 444-454: the conditional update and the mapping of its status; a
\* database error inside update_internet_bookings comes back as "error"
AddReserve ==
    \E w \in Workers, ok \in WriteOutcomes :
        /\ req[w].pc = "add_reserve"
        /\ LET result == IF ok
                         THEN update_internet_bookings(bookfile, req[w].row,
                                                       req[w].court, req[w].mem)
                         ELSE [status |-> "error", bookfile |-> bookfile]
               r == [req[w] EXCEPT !.status = result.status]
           IN  /\ bookfile' = result.bookfile
               /\ req' = [req EXCEPT ![w] =
                            IF result.status = "already_booked"
                            THEN Respond(r, "already_booked")
                            ELSE IF result.status # "success"
                            THEN Respond(r, "not_found")
                            ELSE [r EXCEPT !.pc = "fin_compute"]]
        /\ UNCHANGED <<clublist, courts, waitfile, internetlog, outbox, nreq, last, faulty, tray>>

----------------------------------------------------------------------------
(* flask_financials_app.py: calculated_internet_bookings, called through     *)
(* add_booking_financials / delete_booking_financials                        *)

CostType(r) == IF r.kind = "add_booking" THEN "IBOOKING" ELSE "ICANCEL"

\* a cancellation that refunds its fee
UpdatedCredit_refund(cost_type, current_credit, cost) ==
    IF cost_type = "ICANCEL" THEN current_credit + cost ELSE current_credit - cost

\* the booking fee and the cancellation fee are both subtracted
UpdatedCredit(cost_type, current_credit, cost) == current_credit - cost

\* a financial failure reported as a failure of the booking itself
AfterFinancials_plain_failure(r, ok) ==
    Respond(r, IF ok THEN "success" ELSE "not_found")

\* add_booking 456-469 / delete_booking 590-606: a financial result of
\* "error" becomes the 500 answer "saved/deleted, but financial update
\* failed"; nothing is rolled back
AfterFinancials(r, ok) ==
    Respond(r, IF ok THEN "success" ELSE "fin_failed")

\* lines 18-54: read the balance, look the cost up, compute the new balance
FinCompute ==
    \E w \in Workers :
        /\ req[w].pc = "fin_compute"
        /\ LET current_credit == ProfileCredit(clublist, req[w].mem)
               c == CostFrom(get_court_rates_per_minute(courts), CostType(req[w]))
           IN  req' = [req EXCEPT ![w] =
                         IF c.kind # "cost" THEN AfterFinancials(req[w], FALSE)
                         ELSE [req[w] EXCEPT
                                 !.current = current_credit,
                                 !.cost = c.cost,
                                 !.updated = UpdatedCredit(CostType(req[w]),
                                                           current_credit, c.cost),
                                 !.pc = "fin_update"]]
        /\ UNCHANGED <<bookfile, clublist, courts, waitfile, internetlog, outbox, nreq, last, faulty, tray>>

\* update_squash_member_profile: one UPDATE of the member's row, or failure
update_squash_member_profile(cl, member_no, credit, ok) ==
    IF ok THEN [success |-> TRUE, clublist |-> [cl EXCEPT ![member_no].credit = Some(credit)]]
    ELSE [success |-> FALSE, clublist |-> cl]

\* lines 56-76: the POST writes the new balance; a failed write answers 500
FinUpdate ==
    \E w \in Workers, ok \in WriteOutcomes :
        /\ req[w].pc = "fin_update"
        /\ LET res == update_squash_member_profile(clublist, req[w].mem,
                                                   req[w].updated, ok)
           IN  /\ clublist' = res.clublist
               /\ req' = [req EXCEPT ![w] =
                            IF res.success THEN [req[w] EXCEPT !.pc = "fin_persist"]
                            ELSE AfterFinancials(req[w], FALSE)]
        /\ UNCHANGED <<bookfile, courts, waitfile, internetlog, outbox, nreq, last, faulty, tray>>

\* add_booking_financials 503-521 / delete_booking_financials 652-676: the
\* wrapper writes the returned updated_credit once more, then the handler
\* answers with it
FinPersist ==
    \E w \in Workers, ok \in WriteOutcomes :
        /\ req[w].pc = "fin_persist"
        /\ LET res == update_squash_member_profile(clublist, req[w].mem,
                                                   req[w].updated, ok)
           IN  /\ clublist' = res.clublist
               /\ req' = [req EXCEPT ![w] =
                            AfterFinancials(req[w], res.success)]
        /\ UNCHANGED <<bookfile, courts, waitfile, internetlog, outbox, nreq, last, faulty, tray>>

\* the finally block: one audit record, whatever the outcome
Activity(r) ==
    CASE r.kind = "add_booking" -> 1
      [] r.kind = "delete_booking" -> 101
      [] r.kind = "update_profile" -> 700
      [] OTHER -> IF r.resp = "added" THEN 650 ELSE 651

\* an audit that is written only for requests that succeeded
log_audit_online_booking_success_only(log, r) ==
    IF r.resp = "success"
    THEN Append(log, [mem |-> r.mem, row |-> r.row, court |-> r.court,
                      activity |-> Activity(r)])
    ELSE log

\* log_audit_online_booking / log_waitinglist_update: one INSERT into
\* Internetlog with the member, the court date, the court and the activity
log_audit_online_booking(log, r) ==
    Append(log, [mem |-> r.mem, row |-> r.row, court |-> r.court,
                 activity |-> Activity(r)])

Audit ==
    \E w \in Workers :
        /\ req[w].pc = "audit"
        /\ internetlog' = log_audit_online_booking(internetlog, req[w])
        /\ req' = [req EXCEPT ![w] = [req[w] EXCEPT !.pc = "done",
                                        !.wl = EmptyDict, !.keep = <<>>]]
        /\ last' = Summary(req[w])
        /\ UNCHANGED <<bookfile, clublist, courts, waitfile, outbox, nreq, faulty, tray>>

----------------------------------------------------------------------------
(* flask_waitinglist_app.py: process_waiting_list_notifications *)

Entry(m, named) == [player_id |-> m, named |-> named]

\* lines 262-287: the loop over the stored entries.  An entry of the
\* cancelling player is kept; a complete entry gets one send and is kept only
\* when the send raises; an entry without a name gets no send and is not kept
RECURSIVE NotifyEntries(_, _, _)
NotifyEntries(entries, canceling_player_id, fails) ==
    IF entries = <<>> THEN [keep |-> <<>>, mails |-> <<>>]
    ELSE LET e == Head(entries)
             rest == NotifyEntries(Tail(entries), canceling_player_id, fails)
         IN  IF Some(e.player_id) = canceling_player_id
             THEN [keep |-> <<e>> \o rest.keep, mails |-> rest.mails]
             ELSE IF e.named
             THEN LET ok == e.player_id \notin fails
                  IN  [keep |-> (IF ok THEN <<>> ELSE <<e>>) \o rest.keep,
                       mails |-> <<[to |-> e.player_id, ok |-> ok]>> \o rest.mails]
             ELSE rest

HasSlot(wl, date, time_slot) ==
    date \in DOMAIN wl /\ time_slot \in DOMAIN wl[date]

\* a store that writes the empty list back instead of deleting the slot key
StoreUpdated_keep_key(wl, date, time_slot, updated_entries) ==
    IF updated_entries # <<>>
    THEN [raised |-> TRUE, data |-> wl]
    ELSE [raised |-> FALSE, data |-> Put(wl, date, Put(wl[date], time_slot, <<>>))]

\* lines 289-296: a non-empty updated_entries reaches the statement
\* "[date][time_slot] = updated_entries", which indexes a one-element list
\* with a string and raises TypeError before the save; an empty one deletes
\* the slot key and saves
StoreUpdated(wl, date, time_slot, updated_entries) ==
    IF updated_entries # <<>>
    THEN [raised |-> TRUE, data |-> wl]
    ELSE [raised |-> FALSE, data |-> Put(wl, date, Del(wl[date], time_slot))]

----------------------------------------------------------------------------
(* flask_bookings_app.py: delete_booking *)

\* lines 539-570: parse the request and resolve the slot; the court stands
\* for player_no_column and selected_court, which name the same column
BeginDeleteBooking(w, player_no, date_container, slot_id, court, period_id) ==
    LET sel == IF IsNone(slot_id) THEN None ELSE SlotLookup(Val(slot_id))
        r0 == [Idle EXCEPT !.kind = "delete_booking", !.mem = player_no,
                           !.court = court, !.period = period_id,
                           !.date = date_container, !.slot_id = slot_id,
                           !.before = BalanceOf(clublist, player_no)]
        r1 == IF player_no = 0 \/ date_container = NoDate \/ IsNone(slot_id)
                 \/ court = 0 \/ period_id = 0
              THEN Respond(r0, "missing")
              ELSE IF ~DateOk(date_container) THEN Respond(r0, "bad_date")
              ELSE IF IsNone(sel) THEN Respond(r0, "bad_slot")
              ELSE [r0 EXCEPT !.row = <<date_container.day, Val(sel)>>,
                              !.pc = "del_release"]
    IN  Accept(w, r1)

DeleteBookingRequest ==
    \E w \in Workers, m \in BookingMembers, t \in Targets :
        /\ CanAccept(w)
        /\ BeginDeleteBooking(w, m, DateStr("iso", t.day), Some(t.slot_id),
                              t.court, t.period)
        /\ UNCHANGED <<bookfile, clublist, courts, waitfile, internetlog, outbox, last, faulty, tray>>

\* a cancellation that goes on to the notifications after a failed release
AfterRelease_notify_always(r, success) ==
    [r EXCEPT !.status = IF success THEN "released" ELSE r.status,
              !.pc = "notify_load"]

\* lines 579-580: a failed release answers 404 before the notification and
\* the financial step
AfterRelease(r, success) ==
    IF ~success THEN Respond(r, "not_found")
    ELSE [r EXCEPT !.status = "released", !.pc = "notify_load"]

\* lines 572-580: the conditional release
DelRelease ==
    \E w \in Workers :
        /\ req[w].pc = "del_release"
        /\ LET res == delete_internet_booking(bookfile, req[w].row,
                                              req[w].court, req[w].mem)
           IN  /\ bookfile' = res.bookfile
               /\ req' = [req EXCEPT ![w] = AfterRelease(req[w], res.ok)]
        /\ UNCHANGED <<clublist, courts, waitfile, internetlog, outbox, nreq, last, faulty, tray>>

\* the key of the freed slot in the waiting list file
NotifyDate(r) == DateStr("dmy", r.row[1])
NotifyTime(r) == r.row[2]

\* lines 582-586 calling process_waiting_list_notifications(date, time):
\* canceling_player_id is left at its default.  Load and the sends
NotifyLoad ==
    \E w \in Workers :
        /\ req[w].pc = "notify_load"
        /\ LET wl == waitfile
               d == NotifyDate(req[w])
               t == NotifyTime(req[w])
           IN  IF HasSlot(wl, d, t)
               THEN \E fails \in SUBSET {wl[d][t][i].player_id : i \in 1..Len(wl[d][t])} :
                      LET res == NotifyEntries(wl[d][t], None, fails)
                      IN  /\ outbox' = outbox \o res.mails
                          /\ req' = [req EXCEPT ![w] =
                                       [req[w] EXCEPT !.wl = wl, !.keep = res.keep,
                                                      !.seen = wl[d][t],
                                                      !.pc = "notify_save"]]
               ELSE /\ outbox' = outbox
                    /\ req' = [req EXCEPT ![w].pc = "fin_compute"]
        /\ UNCHANGED <<bookfile, clublist, courts, waitfile, internetlog, nreq, last, faulty, tray>>

\* a notification failure that ends the cancellation with an error
NotificationOutcome_propagate(r, raised) ==
    IF raised THEN Respond(r, "error") ELSE [r EXCEPT !.pc = "fin_compute"]

\* delete_booking 582-590: an exception of the notification step is caught
\* and printed, and the financial step runs either way
NotificationOutcome(r, raised) == [r EXCEPT !.pc = "fin_compute"]

\* the save, or the TypeError that delete_booking catches at lines 587-588
NotifySave ==
    \E w \in Workers :
        /\ req[w].pc = "notify_save"
        /\ LET res == StoreUpdated(req[w].wl, NotifyDate(req[w]),
                                   NotifyTime(req[w]), req[w].keep)
           IN  /\ waitfile' = IF res.raised THEN waitfile ELSE res.data
               /\ req' = [req EXCEPT ![w] =
                            NotificationOutcome(
                                [req[w] EXCEPT !.wl = EmptyDict, !.keep = <<>>,
                                               !.raised = res.raised],
                                res.raised)]
        /\ UNCHANGED <<bookfile, clublist, courts, internetlog, outbox, nreq, last, faulty, tray>>

----------------------------------------------------------------------------
(* dbconnection.py: the reads of the limit check *)

\* the Periods table, in the order get_periods returns it
get_periods == <<1, 2>>

\* get_booking_limitations: the Book_i and the Week_i columns above zero, in
\* column order; a zero or null column is left out of the list
get_booking_limitations(cl, mem) ==
    [daily_limits |-> SelectSeq(cl[mem].book, LAMBDA b : b > 0),
     weekly_limits |-> SelectSeq(cl[mem].week, LAMBDA b : b > 0)]

\* get_booked_players_memno: the PlayerNo columns of a row, -9 left out
PlayerNos(rowrec) == SelectSeq(rowrec.player, LAMBDA v : v # Some(RESTRICTED))

\* get_period_ids_by_date_range: the BookCode columns of a row, 0 left out
RowPeriods(rowrec) == SelectSeq(rowrec.code, LAMBDA c : c # 0)

\* WHERE [Date] BETWEEN start AND end: the rows of the inclusive date range
RowsInRange(bf, start_day, end_day) ==
    {row \in DOMAIN bf :
        DayNo[start_day] <= DayNo[row[1]] /\ DayNo[row[1]] <= DayNo[end_day]}

----------------------------------------------------------------------------
(* flask_bookings_app.py: check_daily_booking_limits and                     *)
(* check_weekly_booking_limits                                               *)

\* lines 211-226 / 346-352: in one row, the positions that hold the member
\* and whose period is period_id
RowCount(rowrec, mem, period_id) ==
    LET ps == RowPeriods(rowrec)
        pl == PlayerNos(rowrec)
    IN  Cardinality({i \in 1..Len(ps) :
                        /\ i <= Len(pl)
                        /\ pl[i] = Some(mem)
                        /\ ps[i] = period_id})

\* a daily check that counts the elapsed rows of today as well
DailyRows_all(bf, day) == RowsInRange(bf, day, day)

\* lines 195-201: a row of today whose start time has elapsed is skipped
DailyRows(bf, day) ==
    {row \in RowsInRange(bf, day, day) :
        ~(IsPast(row[1], row[2]) /\ day = Clock.day)}

\* a weekly check that skips the rows whose start time has elapsed
WeeklyRows_future(bf, start_day, end_day) ==
    {row \in RowsInRange(bf, start_day, end_day) : ~IsPast(row[1], row[2])}

\* lines 331-338: the weekly loop has no test of the start time
WeeklyRows(bf, start_day, end_day) == RowsInRange(bf, start_day, end_day)

RECURSIVE SumRows(_, _, _, _)
SumRows(bf, rows, mem, period_id) ==
    IF rows = {} THEN 0
    ELSE LET row == CHOOSE x \in rows : TRUE
         IN  RowCount(bf[row], mem, period_id)
               + SumRows(bf, rows \ {row}, mem, period_id)

\* lines 180-189 / 320-328: limits and periods are zipped by position
AlignedLimits(limits) ==
    LET n == IF Len(limits) < Len(get_periods) THEN Len(limits) ELSE Len(get_periods)
    IN  [i \in 1..n |-> [limit |-> limits[i], period_id |-> get_periods[i]]]

\* the count loop: a booking goes to the first aligned entry of its period
CountedLimits(aligned, bf, rows, mem) ==
    LET first(pid) == CHOOSE i \in 1..Len(aligned) :
                         /\ aligned[i].period_id = pid
                         /\ \A j \in 1..(i - 1) : aligned[j].period_id # pid
    IN  [i \in 1..Len(aligned) |->
            [limit |-> aligned[i].limit,
             period_id |-> aligned[i].period_id,
             bookings_count |->
                 IF first(aligned[i].period_id) = i
                 THEN SumRows(bf, rows, mem, aligned[i].period_id)
                 ELSE 0]]

\* the answer of either endpoint: 200 without limits when the range has no
\* row, 404 when the member has no cap, else 403 when a count is above its
\* cap and 200 when none is
LimitsAnswer(bf, in_range, counted_rows, limits, mem) ==
    IF in_range = {} THEN [status |-> "no_bookings", limits |-> <<>>]
    ELSE IF Len(limits) = 0 THEN [status |-> "no_limits", limits |-> <<>>]
    ELSE LET counted == CountedLimits(AlignedLimits(limits), bf, counted_rows, mem)
         IN  [status |-> IF \E i \in 1..Len(counted) :
                                counted[i].bookings_count > counted[i].limit
                            THEN "failed" ELSE "success",
              limits |-> counted]

check_daily_booking_limits(bf, cl, mem, day) ==
    LimitsAnswer(bf, RowsInRange(bf, day, day), DailyRows(bf, day),
                 get_booking_limitations(cl, mem).daily_limits, mem)

check_weekly_booking_limits(bf, cl, mem, start_day, end_day) ==
    LimitsAnswer(bf, RowsInRange(bf, start_day, end_day),
                 WeeklyRows(bf, start_day, end_day),
                 get_booking_limitations(cl, mem).weekly_limits, mem)

\* a handler without an audit block completes with its response
Complete(w, r) ==
    /\ req' = [req EXCEPT ![w] = [r EXCEPT !.pc = "done", !.wl = EmptyDict]]
    /\ last' = Summary(r)

\* GET /booking_daily_limits?date=...
BeginCheckDailyLimits(w, mem_no, date) ==
    Accept(w, [Idle EXCEPT !.kind = "daily_limits", !.mem = mem_no,
                           !.date = date, !.pc = "daily_limits"])

\* lines 145-249: the date must parse as "%d/%m/%Y"; then the reads, the
\* count and the answer
CheckDailyLimits ==
    \E w \in Workers :
        /\ req[w].pc = "daily_limits"
        /\ LET date == req[w].date
               ans == check_daily_booking_limits(bookfile, clublist,
                                                 req[w].mem, date.day)
           IN  IF date.fmt # "dmy"
               THEN Complete(w, [req[w] EXCEPT !.resp = "bad_date"])
               ELSE Complete(w, [req[w] EXCEPT !.resp = ans.status,
                                               !.limits = ans.limits])
        /\ UNCHANGED <<bookfile, clublist, courts, waitfile, internetlog, outbox, nreq, faulty, tray>>

\* GET /booking_weekly_limits?start_date=...&end_date=...
BeginCheckWeeklyLimits(w, mem_no, start_date, end_date) ==
    Accept(w, [Idle EXCEPT !.kind = "weekly_limits", !.mem = mem_no,
                           !.date = start_date, !.end_date = end_date,
                           !.pc = "weekly_limits"])

\* lines 278-374: both dates must parse as "%d/%m/%Y" and be in order; then
\* the reads, the count and the answer
CheckWeeklyLimits ==
    \E w \in Workers :
        /\ req[w].pc = "weekly_limits"
        /\ LET start_date == req[w].date
               end_date == req[w].end_date
               ans == check_weekly_booking_limits(bookfile, clublist, req[w].mem,
                                                  start_date.day, end_date.day)
           IN  IF start_date.fmt # "dmy" \/ end_date.fmt # "dmy"
               THEN Complete(w, [req[w] EXCEPT !.resp = "bad_date"])
               ELSE IF DayNo[start_date.day] > DayNo[end_date.day]
               THEN Complete(w, [req[w] EXCEPT !.resp = "bad_range"])
               ELSE Complete(w, [req[w] EXCEPT !.resp = ans.status,
                                               !.limits = ans.limits])
        /\ UNCHANGED <<bookfile, clublist, courts, waitfile, internetlog, outbox, nreq, faulty, tray>>

----------------------------------------------------------------------------
(* flask_waitinglist_app.py: cleanup_waiting_list and add_to_waiting_list *)

\* lines 95-98: a "%Y-%m-%d" date becomes "%d/%m/%Y", anything else is kept
ConvertDate(date) ==
    IF date.fmt = "iso" THEN DateStr("dmy", date.day) ELSE date

\* cleanup that also drops today's key
cleanup_waiting_list_strict(wl) ==
    LET keepKeys == {k \in DOMAIN wl :
                        k.fmt = "dmy" /\ DayNo[k.day] > DayNo[Clock.day]}
    IN  [k \in keepKeys |-> wl[k]]

\* lines 47-61: keys that parse as "%d/%m/%Y" and are not before today stay
cleanup_waiting_list(wl) ==
    LET keepKeys == {k \in DOMAIN wl :
                        k.fmt = "dmy" /\ DayNo[k.day] >= DayNo[Clock.day]}
    IN  [k \in keepKeys |-> wl[k]]

SlotList(wl, date, time_slot) ==
    IF HasSlot(wl, date, time_slot) THEN wl[date][time_slot] ELSE <<>>

\* a duplicate test that never finds the player
InList_never(entries, player_id) == FALSE

InList(entries, player_id) ==
    \E i \in 1..Len(entries) : entries[i].player_id = player_id

\* an append that starts the slot list afresh
AppendEntry_fresh(wl, date, time_slot, e) ==
    LET slots == IF date \in DOMAIN wl THEN wl[date] ELSE EmptyDict
    IN  Put(wl, date, Put(slots, time_slot, <<e>>))

AppendEntry(wl, date, time_slot, e) ==
    LET slots == IF date \in DOMAIN wl THEN wl[date] ELSE EmptyDict
    IN  Put(wl, date, Put(slots, time_slot,
                          Append(SlotList(wl, date, time_slot), e)))

\* lines 79-113: the session, the fields and the member's email address
BeginAddToWaitingList(w, player_id, date, time_slot) ==
    LET r0 == [Idle EXCEPT !.kind = "wl_add", !.mem = player_id,
                           !.date = ConvertDate(date),
                           !.row = <<date.day, time_slot>>]
        r1 == IF ~clublist[player_id].email THEN Respond(r0, "bad_email")
              ELSE [r0 EXCEPT !.pc = "wl_cleanup_load"]
    IN  Accept(w, r1)

\* the dates of the waiting list scenarios: today in both accepted formats,
\* yesterday, and a string in neither format
WaitingDates == {DateStr("iso", "today"), DateStr("dmy", "today"),
                 DateStr("dmy", "yesterday"), DateStr("other", "today")}

AddToWaitingListRequest ==
    \E w \in Workers, m \in BookingMembers, d \in WaitingDates,
       t \in {get_time_slots[i] : i \in 1..Len(get_time_slots)} :
        /\ CanAccept(w)
        /\ BeginAddToWaitingList(w, m, d, t)
        /\ UNCHANGED <<bookfile, clublist, courts, waitfile, internetlog, outbox, last, faulty, tray>>

\* cleanup_waiting_list, lines 44-61: load and filter
WlCleanupLoad ==
    \E w \in Workers :
        /\ req[w].pc = "wl_cleanup_load"
        /\ req' = [req EXCEPT ![w] = [req[w] EXCEPT
                      !.wl = cleanup_waiting_list(waitfile),
                      !.pc = "wl_cleanup_save"]]
        /\ UNCHANGED <<bookfile, clublist, courts, waitfile, internetlog, outbox, nreq, last, faulty, tray>>

\* cleanup_waiting_list, line 64: save
WlCleanupSave ==
    \E w \in Workers :
        /\ req[w].pc = "wl_cleanup_save"
        /\ waitfile' = req[w].wl
        /\ req' = [req EXCEPT ![w] = [req[w] EXCEPT !.wl = EmptyDict,
                                        !.pc = "wl_add_load"]]
        /\ UNCHANGED <<bookfile, clublist, courts, internetlog, outbox, nreq, last, faulty, tray>>

\* lines 118-142: load, look for the player, append
WlAddLoad ==
    \E w \in Workers :
        /\ req[w].pc = "wl_add_load"
        /\ LET wl == waitfile
               d == req[w].date
               t == req[w].row[2]
               m == req[w].mem
           IN  req' = [req EXCEPT ![w] =
                         IF InList(SlotList(wl, d, t), m)
                         THEN Respond(req[w], "already_in_list")
                         ELSE [req[w] EXCEPT
                                 !.wl = AppendEntry(wl, d, t,
                                                    Entry(m, clublist[m].named)),
                                 !.pc = "wl_add_save"]]
        /\ UNCHANGED <<bookfile, clublist, courts, waitfile, internetlog, outbox, nreq, last, faulty, tray>>

\* lines 143-149: save and answer
WlAddSave ==
    \E w \in Workers :
        /\ req[w].pc = "wl_add_save"
        /\ waitfile' = req[w].wl
        /\ req' = [req EXCEPT ![w] =
                     Respond([req[w] EXCEPT !.wl = EmptyDict], "added")]
        /\ UNCHANGED <<bookfile, clublist, courts, internetlog, outbox, nreq, last, faulty, tray>>

----------------------------------------------------------------------------
(* flask_waitinglist_app.py: remove_from_waiting_list *)

\* lines 200-203: the entries of the other players
WithoutPlayer(entries, player_id) ==
    SelectSeq(entries, LAMBDA e : e.player_id # player_id)

\* lines 205-212: store the filtered list or delete the slot key, then delete
\* the date key when it has no slot left
RemoveEntry(wl, date, time_slot, player_id) ==
    LET updated_entries == WithoutPlayer(wl[date][time_slot], player_id)
        slots == IF updated_entries # <<>>
                 THEN Put(wl[date], time_slot, updated_entries)
                 ELSE Del(wl[date], time_slot)
    IN  IF DOMAIN slots = {} THEN Del(wl, date) ELSE Put(wl, date, slots)

\* lines 182-193: the session and the fields; the date is used as it came
BeginRemoveFromWaitingList(w, player_id, date, time_slot) ==
    Accept(w, [Idle EXCEPT !.kind = "wl_remove", !.mem = player_id,
                           !.date = date, !.row = <<date.day, time_slot>>,
                           !.pc = "wl_remove_load"])

\* lines 195-212 and 217-219: load; with the slot key present filter the
\* list, without it answer 404
WlRemoveLoad ==
    \E w \in Workers :
        /\ req[w].pc = "wl_remove_load"
        /\ LET wl == waitfile
               d == req[w].date
               t == req[w].row[2]
               r == [req[w] EXCEPT !.seen = SlotList(wl, d, t)]
           IN  IF HasSlot(wl, d, t)
               THEN /\ req' = [req EXCEPT ![w] =
                                 [r EXCEPT !.wl = RemoveEntry(wl, d, t, req[w].mem),
                                           !.pc = "wl_remove_save"]]
                    /\ last' = last
               ELSE Complete(w, [r EXCEPT !.resp = "not_found"])
        /\ UNCHANGED <<bookfile, clublist, courts, waitfile, internetlog, outbox, nreq, faulty, tray>>

\* lines 214-216: save and answer 200
WlRemoveSave ==
    \E w \in Workers :
        /\ req[w].pc = "wl_remove_save"
        /\ waitfile' = req[w].wl
        /\ Complete(w, [req[w] EXCEPT !.status = "saved", !.resp = "removed"])
        /\ UNCHANGED <<bookfile, clublist, courts, internetlog, outbox, nreq, faulty, tray>>

----------------------------------------------------------------------------
(* flask_myprofile_app.py: update_profile *)

\* the credit values a profile form can carry; a form without the field
\* reads as 0
ProfileCredits == {0, 5000, 10000}

\* lines 54-70: the session and the fields of the form, credit among them
BeginUpdateProfile(w, mem_no, credit) ==
    Accept(w, [Idle EXCEPT !.kind = "update_profile", !.mem = mem_no,
                           !.before = ProfileCredit(clublist, mem_no),
                           !.updated = credit, !.pc = "profile_write"])

UpdateProfileRequest ==
    \E w \in Workers, m \in BookingMembers, credit \in ProfileCredits :
        /\ CanAccept(w)
        /\ BeginUpdateProfile(w, m, credit)
        /\ UNCHANGED <<bookfile, clublist, courts, waitfile, internetlog, outbox, last, faulty, tray>>

\* lines 72-113: update_squash_member_profile with the credit of the form;
\* on success the activity 700 is logged, on failure the answer is 400
ProfileWrite ==
    \E w \in Workers, ok \in WriteOutcomes :
        /\ req[w].pc = "profile_write"
        /\ LET res == update_squash_member_profile(clublist, req[w].mem,
                                                   req[w].updated, ok)
           IN  /\ clublist' = res.clublist
               /\ IF res.success
                  THEN /\ req' = [req EXCEPT ![w] = Respond(req[w], "success")]
                       /\ last' = last
                  ELSE Complete(w, [req[w] EXCEPT !.resp = "failed"])
        /\ UNCHANGED <<bookfile, courts, waitfile, internetlog, outbox, nreq, faulty, tray>>

----------------------------------------------------------------------------
(* AutoStart/StartOnlineBookingWebSite.py: the tray launcher.  The menu     *)
(* thread runs one menu action at a time, the watchdog thread runs next to  *)
(* it; both call start_server and share _proc and _status.  A server       *)
(* process is a number, _proc = None is 0.                                  *)

MaxStarts == 3        \* server processes started in one behaviour

Threads == {"menu", "watchdog"}

\* main, lines 287-298: the server is started, then the watchdog
TrayStart ==
    [proc |-> 1, alive |-> {1}, nproc |-> 1, status |-> "running",
     stop_event |-> FALSE,
     pc |-> [t \in Threads |-> IF t = "menu" THEN "idle" ELSE "loop"],
     action |-> "none", p |-> 0, stopped |-> FALSE]

\* p.poll() is None: the process has not exited
Polls(t, p) == p \in t.alive

\* where a thread goes on when start_server returns
AfterStart(th) == IF th = "menu" THEN "idle" ELSE "loop"

\* start_server, lines 164-166: a live _proc means running and return,
\* anything else goes on to start one
StartServerCheck ==
    \E th \in Threads :
        /\ tray.pc[th] = "start_check"
        /\ tray' = IF tray.proc # 0 /\ Polls(tray, tray.proc)
                   THEN [tray EXCEPT !.status = "running",
                                     !.pc[th] = AfterStart(th)]
                   ELSE [tray EXCEPT !.status = "starting",
                                     !.pc[th] = "start_popen"]
        /\ UNCHANGED <<bookfile, clublist, courts, waitfile, req, internetlog, outbox, nreq, last, faulty>>

\* start_server, lines 167-178: Popen of a new server process
StartServerPopen ==
    \E th \in Threads :
        /\ tray.pc[th] = "start_popen"
        /\ tray.nproc < MaxStarts
        /\ tray' = [tray EXCEPT !.proc = tray.nproc + 1,
                                !.alive = tray.alive \cup {tray.nproc + 1},
                                !.nproc = tray.nproc + 1,
                                !.status = "running",
                                !.pc[th] = AfterStart(th)]
        /\ UNCHANGED <<bookfile, clublist, courts, waitfile, req, internetlog, outbox, nreq, last, faulty>>

\* stop_server, lines 197-198: a live _proc is stopped, anything else is
\* only cleared
StopServerCheck ==
    /\ tray.pc["menu"] = "stop_check"
    /\ tray' = IF tray.proc # 0 /\ Polls(tray, tray.proc)
               THEN [tray EXCEPT !.status = "stop_pending",
                                 !.pc["menu"] = "stop_terminate"]
               ELSE [tray EXCEPT !.pc["menu"] = "stop_clear"]
    /\ UNCHANGED <<bookfile, clublist, courts, waitfile, req, internetlog, outbox, nreq, last, faulty>>

\* stop_server, lines 199-207: terminate, wait up to five seconds, kill
StopServerTerminate ==
    /\ tray.pc["menu"] = "stop_terminate"
    /\ tray' = [tray EXCEPT !.alive = tray.alive \ {tray.proc},
                            !.pc["menu"] = "stop_clear"]
    /\ UNCHANGED <<bookfile, clublist, courts, waitfile, req, internetlog, outbox, nreq, last, faulty>>

\* stop_server, lines 208-210: _proc = None and the status stopped; then the
\* menu action goes on: restart and the logging toggle start the server, the
\* manual stop and exit are finished
StopServerClear ==
    /\ tray.pc["menu"] = "stop_clear"
    /\ tray' = [tray EXCEPT
                  !.proc = 0,
                  !.status = "stopped",
                  !.stopped = tray.action = "stop",
                  !.pc["menu"] = CASE tray.action \in {"restart", "toggle"}
                                        -> "start_check"
                                   [] tray.action = "exit" -> "exited"
                                   [] OTHER -> "idle"]
    /\ UNCHANGED <<bookfile, clublist, courts, waitfile, req, internetlog, outbox, nreq, last, faulty>>

\* stop_menu_action, lines 233-236: only while the status is running
StopMenuAction ==
    /\ tray.pc["menu"] = "idle"
    /\ tray.status = "running"
    /\ tray' = [tray EXCEPT !.action = "stop", !.pc["menu"] = "stop_check"]
    /\ UNCHANGED <<bookfile, clublist, courts, waitfile, req, internetlog, outbox, nreq, last, faulty>>

\* start_menu_action, lines 228-231: only while stopped or in error
StartMenuAction ==
    /\ tray.pc["menu"] = "idle"
    /\ tray.status \in {"stopped", "error"}
    /\ tray' = [tray EXCEPT !.action = "start", !.stopped = FALSE,
                            !.pc["menu"] = "start_check"]
    /\ UNCHANGED <<bookfile, clublist, courts, waitfile, req, internetlog, outbox, nreq, last, faulty>>

\* restart_server, lines 212-216, and toggle_logging, lines 218-226: stop,
\* then start
RestartOrToggle ==
    \E a \in {"restart", "toggle"} :
        /\ tray.pc["menu"] = "idle"
        /\ tray' = [tray EXCEPT
                      !.action = a, !.stopped = FALSE,
                      !.status = IF a = "restart" THEN "restarting" ELSE tray.status,
                      !.pc["menu"] = "stop_check"]
        /\ UNCHANGED <<bookfile, clublist, courts, waitfile, req, internetlog, outbox, nreq, last, faulty>>

\* exit_app, lines 251-257: the stop event, then stop_server
ExitApp ==
    /\ tray.pc["menu"] = "idle"
    /\ tray' = [tray EXCEPT !.action = "exit", !.stop_event = TRUE,
                            !.pc["menu"] = "stop_check"]
    /\ UNCHANGED <<bookfile, clublist, courts, waitfile, req, internetlog, outbox, nreq, last, faulty>>

\* watchdog, lines 260-261: the loop test and p = _proc
WatchdogRead ==
    /\ tray.pc["watchdog"] = "loop"
    /\ tray' = IF tray.stop_event
               THEN [tray EXCEPT !.pc["watchdog"] = "exited"]
               ELSE [tray EXCEPT !.p = tray.proc, !.pc["watchdog"] = "poll"]
    /\ UNCHANGED <<bookfile, clublist, courts, waitfile, req, internetlog, outbox, nreq, last, faulty>>

\* watchdog, lines 262-267: a p that has exited is restarted after two
\* seconds, whatever made it exit
WatchdogPoll ==
    /\ tray.pc["watchdog"] = "poll"
    /\ tray' = IF tray.p # 0 /\ ~Polls(tray, tray.p)
               THEN [tray EXCEPT !.status = "restarting",
                                 !.pc["watchdog"] = "start_check"]
               ELSE [tray EXCEPT !.pc["watchdog"] = "loop"]
    /\ UNCHANGED <<bookfile, clublist, courts, waitfile, req, internetlog, outbox, nreq, last, faulty>>

\* the server process exits on its own
ServerExits ==
    \E p \in tray.alive :
        /\ tray' = [tray EXCEPT !.alive = tray.alive \ {p}]
        /\ UNCHANGED <<bookfile, clublist, courts, waitfile, req, internetlog, outbox, nreq, last, faulty>>

----------------------------------------------------------------------------
(* Initial tables *)

Row(players, codes) == [player |-> players, code |-> codes]

\* the fee columns of the first court: booking 10.00 / 20.00, cancel 5.00 / 7.00
CourtsTable == << [ibooking |-> <<Some(1000), Some(2000)>>,
                   icancel  |-> <<Some(500), Some(700)>>] >>

Member(credit, book) ==
    [credit |-> credit, book |-> book, week |-> <<0, 0>>, named |-> TRUE,
     email |-> TRUE]

ClublistTable ==
    [m \in Members |->
        CASE m = 1 -> Member(Some(10000), <<0, 0>>)
          [] m = 2 -> Member(Some(1000), <<1, 0>>)
          [] OTHER -> Member(None, <<2, 1>>)]

BookfileTable ==
    (<<"today", 10>> :> Row(<<Some(1), None, None>>, <<1, 1, 2>>)) @@
    (<<"today", 20>> :> Row(<<Some(RESTRICTED), Some(2), None>>, <<1, 1, 2>>))

InitCommon ==
    /\ courts = CourtsTable
    /\ clublist = ClublistTable
    /\ req = [w \in Workers |-> Idle]
    /\ internetlog = <<>>
    /\ outbox = <<>>
    /\ nreq = 0
    /\ last = NoSummary

Init ==
    /\ InitCommon
    /\ faulty = FALSE
    /\ tray = TrayStart
    /\ bookfile = BookfileTable
    /\ waitfile = EmptyDict

Next ==
    \/ AddBookingRequest
    \/ AddCredit
    \/ AddPrecheck
    \/ AddReserve
    \/ DeleteBookingRequest
    \/ DelRelease
    \/ NotifyLoad
    \/ FinCompute
    \/ FinUpdate
    \/ FinPersist
    \/ Audit

Spec == Init /\ [][Next]_vars

\* the waiting list file of the cancellation scenarios: today's second slot
\* holds one or two different members, tomorrow's first slot holds member 1
Today == DateStr("dmy", "today")

CancelLists ==
    {<<Entry(a, TRUE)>> : a \in Members}
      \cup {<<Entry(a, TRUE), Entry(b, TRUE)>> : <<a, b>> \in
               {x \in Members \X Members : x[1] # x[2]}}

CancelFile(list) ==
    (Today :> (20 :> list)) @@
    (DateStr("dmy", "tomorrow") :> (10 :> <<Entry(1, TRUE)>>))

InitCancel ==
    /\ InitCommon
    /\ faulty = FALSE
    /\ tray = TrayStart
    /\ bookfile = BookfileTable
    /\ waitfile \in {CancelFile(l) : l \in CancelLists}

NextCancel ==
    \/ DeleteBookingRequest
    \/ DelRelease
    \/ NotifyLoad
    \/ NotifySave
    \/ FinCompute
    \/ FinUpdate
    \/ FinPersist
    \/ Audit

SpecCancel == InitCancel /\ [][NextCancel]_vars

\* the waiting list file of the waiting list scenarios: keys of yesterday,
\* today and tomorrow
ThreeDayFile ==
    (DateStr("dmy", "yesterday") :> (10 :> <<Entry(1, TRUE)>>)) @@
    (Today :> ((10 :> <<Entry(3, TRUE)>>) @@ (20 :> <<Entry(3, TRUE), Entry(1, TRUE)>>))) @@
    (DateStr("dmy", "tomorrow") :> (20 :> <<Entry(2, TRUE)>>))

InitWaiting ==
    /\ InitCommon
    /\ faulty = FALSE
    /\ tray = TrayStart
    /\ bookfile = BookfileTable
    /\ waitfile \in {ThreeDayFile, EmptyDict}

NextWaiting ==
    \/ AddToWaitingListRequest
    \/ WlCleanupLoad
    \/ WlCleanupSave
    \/ WlAddLoad
    \/ WlAddSave
    \/ Audit

SpecWaiting == InitWaiting /\ [][NextWaiting]_vars

\* the waiting list store under add, remove, cleanup and notification: the
\* list of today's second slot holds member 3, yesterday's key is still there,
\* and member 2 holds the booking whose cancellation frees that slot
StoreFile ==
    (DateStr("dmy", "yesterday") :> (10 :> <<Entry(1, TRUE)>>)) @@
    (Today :> (20 :> <<Entry(3, TRUE)>>))

StoreAddRequest ==
    \E w \in Workers, m \in BookingMembers :
        /\ CanAccept(w)
        /\ BeginAddToWaitingList(w, m, DateStr("iso", "today"), 20)
        /\ UNCHANGED <<bookfile, clublist, courts, waitfile, internetlog, outbox, last, faulty, tray>>

StoreRemoveRequest ==
    \E w \in Workers, m \in BookingMembers,
       t \in {get_time_slots[i] : i \in 1..Len(get_time_slots)} :
        /\ CanAccept(w)
        /\ BeginRemoveFromWaitingList(w, m, Today, t)
        /\ UNCHANGED <<bookfile, clublist, courts, waitfile, internetlog, outbox, last, faulty, tray>>

StoreCancelRequest ==
    \E w \in Workers :
        /\ CanAccept(w)
        /\ BeginDeleteBooking(w, 2, DateStr("iso", "today"), Some(2), 2, 1)
        /\ UNCHANGED <<bookfile, clublist, courts, waitfile, internetlog, outbox, last, faulty, tray>>

InitStore ==
    /\ InitCommon
    /\ faulty = FALSE
    /\ tray = TrayStart
    /\ bookfile = BookfileTable
    /\ waitfile = StoreFile

NextStore ==
    \/ StoreAddRequest
    \/ WlCleanupLoad
    \/ WlCleanupSave
    \/ WlAddLoad
    \/ WlAddSave
    \/ StoreRemoveRequest
    \/ WlRemoveLoad
    \/ WlRemoveSave
    \/ StoreCancelRequest
    \/ DelRelease
    \/ NotifyLoad
    \/ NotifySave
    \/ FinCompute
    \/ FinUpdate
    \/ FinPersist
    \/ Audit

SpecStore == InitStore /\ [][NextStore]_vars

\* the profile form next to the bookings of the same members
InitProfile ==
    /\ InitCommon
    /\ faulty = TRUE
    /\ tray = TrayStart
    /\ bookfile = BookfileTable
    /\ waitfile = EmptyDict

NextProfile ==
    \/ UpdateProfileRequest
    \/ ProfileWrite
    \/ Audit

SpecProfile == InitProfile /\ [][NextProfile]_vars

\* the booking scenarios with failures: a database write can fail, and the
\* Courts table may hold no booking fee (an empty fee list) or no fee at all
NoBookingFeeTable == << [ibooking |-> <<None, Some(0)>>,
                        icancel  |-> <<Some(500), Some(700)>>] >>

NoFeeTable == << [ibooking |-> <<None, None>>, icancel |-> <<None, None>>] >>

InitFault ==
    /\ courts \in {CourtsTable, NoBookingFeeTable, NoFeeTable}
    /\ clublist = ClublistTable
    /\ req = [w \in Workers |-> Idle]
    /\ internetlog = <<>>
    /\ outbox = <<>>
    /\ nreq = 0
    /\ last = NoSummary
    /\ faulty = TRUE
    /\ tray = TrayStart
    /\ bookfile = BookfileTable
    /\ waitfile = EmptyDict

NextFault ==
    \/ AddBookingRequest
    \/ AddCredit
    \/ AddPrecheck
    \/ AddReserve
    \/ FinCompute
    \/ FinUpdate
    \/ FinPersist
    \/ Audit

SpecFault == InitFault /\ [][NextFault]_vars

\* the cancellation scenarios with entries that have no first or last name
\* (the session of a member whose Clublist row has an empty name): such an
\* entry alone, before and after a complete one, and a complete one alone
DispatchLists ==
    {<<Entry(3, FALSE)>>, <<Entry(3, FALSE), Entry(1, TRUE)>>,
     <<Entry(1, TRUE), Entry(3, FALSE)>>, <<Entry(3, TRUE)>>}

InitDispatch ==
    /\ InitCommon
    /\ faulty = FALSE
    /\ tray = TrayStart
    /\ bookfile = BookfileTable
    /\ waitfile \in {CancelFile(l) : l \in DispatchLists}

SpecDispatch == InitDispatch /\ [][NextCancel]_vars

\* the validation scenarios: a request of member 2 for today's second slot
\* in which one field at a time is absent, malformed or out of range
Fields(player_no, date_container, slot_id, court, period_id) ==
    [player_no |-> player_no, date_container |-> date_container,
     slot_id |-> slot_id, court |-> court, period_id |-> period_id]

BadRequests(court, period_id) ==
    LET today == DateStr("iso", "today")
    IN  {Fields(0, today, Some(2), court, period_id),
         Fields(2, NoDate, Some(2), court, period_id),
         Fields(2, today, None, court, period_id),
         Fields(2, today, Some(2), 0, period_id),
         Fields(2, DateStr("dmy", "today"), Some(2), court, period_id),
         Fields(2, today, Some(3), court, period_id),
         Fields(2, today, Some(0), court, period_id),
         Fields(2, today, Some(-1), court, period_id),
         Fields(2, today, Some(-3), court, period_id)}

BadAddRequest ==
    \E w \in Workers, f \in BadRequests(3, 2) :
        /\ CanAccept(w)
        /\ BeginAddBooking(w, f.player_no, f.date_container, f.slot_id, f.court)
        /\ UNCHANGED <<bookfile, clublist, courts, waitfile, internetlog, outbox, last, faulty, tray>>

BadDeleteRequest ==
    \E w \in Workers, f \in BadRequests(2, 1) \cup {Fields(2, DateStr("iso", "today"), Some(2), 2, 0)} :
        /\ CanAccept(w)
        /\ BeginDeleteBooking(w, f.player_no, f.date_container, f.slot_id,
                              f.court, f.period_id)
        /\ UNCHANGED <<bookfile, clublist, courts, waitfile, internetlog, outbox, last, faulty, tray>>

InitValidation ==
    /\ InitCommon
    /\ faulty = FALSE
    /\ tray = TrayStart
    /\ bookfile = BookfileTable
    /\ waitfile = StoreFile

NextValidation ==
    \/ BadAddRequest
    \/ AddCredit
    \/ AddPrecheck
    \/ AddReserve
    \/ BadDeleteRequest
    \/ DelRelease
    \/ NotifyLoad
    \/ NotifySave
    \/ FinCompute
    \/ FinUpdate
    \/ FinPersist
    \/ Audit

SpecValidation == InitValidation /\ [][NextValidation]_vars

\* the cell values of the pre-check scenarios: court 3 of today's second
\* slot holds NULL, 0, the restricted marker or a member number, next to the
\* restricted court 1 and member 2's court 2
CellValues == {None, Some(0), Some(RESTRICTED)} \cup {Some(m) : m \in Members}

CellAddRequest ==
    \E w \in Workers, m \in BookingMembers, court \in CourtNos :
        /\ CanAccept(w)
        /\ BeginAddBooking(w, m, DateStr("iso", "today"), Some(2), court)
        /\ UNCHANGED <<bookfile, clublist, courts, waitfile, internetlog, outbox, last, faulty, tray>>

InitCells ==
    /\ InitCommon
    /\ faulty = FALSE
    /\ tray = TrayStart
    /\ bookfile \in {SetCell(BookfileTable, <<"today", 20>>, 3, v) : v \in CellValues}
    /\ waitfile = EmptyDict

NextCells ==
    \/ CellAddRequest
    \/ AddCredit
    \/ AddPrecheck
    \/ AddReserve
    \/ FinCompute
    \/ FinUpdate
    \/ FinPersist
    \/ Audit

SpecCells == InitCells /\ [][NextCells]_vars

\* the limit checks: member 2 holds cells of both periods yesterday, in
\* today's elapsed slot, in today's coming slot and tomorrow; the daily and
\* the weekly cap columns of member 2 take every combination of 0, 1 and 2
LimitsBookfile ==
    (<<"yesterday", 20>> :> Row(<<Some(2), None, None>>, <<1, 1, 2>>)) @@
    (<<"today", 10>> :> Row(<<Some(2), Some(2), Some(2)>>, <<1, 1, 2>>)) @@
    (<<"today", 20>> :> Row(<<Some(2), Some(2), Some(2)>>, <<1, 1, 2>>)) @@
    (<<"tomorrow", 10>> :> Row(<<Some(1), None, Some(2)>>, <<1, 1, 2>>))

CapColumns == {<<a, b>> : a, b \in {0, 1, 2}}

WeekColumns == {<<0, 0>>, <<0, 3>>, <<5, 3>>}

LimitsClublist(book, week) ==
    [ClublistTable EXCEPT ![2].book = book, ![2].week = week]

DailyLimitsRequest ==
    \E w \in Workers,
       d \in {DateStr("dmy", "yesterday"), DateStr("dmy", "today"),
              DateStr("dmy", "tomorrow"), DateStr("iso", "today")} :
        /\ CanAccept(w)
        /\ BeginCheckDailyLimits(w, 2, d)
        /\ UNCHANGED <<bookfile, clublist, courts, waitfile, internetlog, outbox, last, faulty, tray>>

WeeklyLimitsRequest ==
    \E w \in Workers,
       range \in {<<DateStr("dmy", "yesterday"), DateStr("dmy", "tomorrow")>>,
                  <<DateStr("dmy", "today"), DateStr("dmy", "today")>>,
                  <<DateStr("dmy", "tomorrow"), DateStr("dmy", "today")>>,
                  <<DateStr("iso", "today"), DateStr("dmy", "tomorrow")>>} :
        /\ CanAccept(w)
        /\ BeginCheckWeeklyLimits(w, 2, range[1], range[2])
        /\ UNCHANGED <<bookfile, clublist, courts, waitfile, internetlog, outbox, last, faulty, tray>>

InitLimits ==
    /\ courts = CourtsTable
    /\ req = [w \in Workers |-> Idle]
    /\ internetlog = <<>>
    /\ outbox = <<>>
    /\ nreq = 0
    /\ last = NoSummary
    /\ faulty = FALSE
    /\ tray = TrayStart
    /\ bookfile = LimitsBookfile
    /\ waitfile = EmptyDict
    /\ clublist \in {LimitsClublist(b, wk) : b \in CapColumns, wk \in WeekColumns}

NextLimits ==
    \/ DailyLimitsRequest
    \/ CheckDailyLimits
    \/ WeeklyLimitsRequest
    \/ CheckWeeklyLimits

SpecLimits == InitLimits /\ [][NextLimits]_vars

\* the tray launcher next to an idle web application
InitTray ==
    /\ InitCommon
    /\ faulty = FALSE
    /\ tray = TrayStart
    /\ bookfile = BookfileTable
    /\ waitfile = EmptyDict

NextTray ==
    \/ StartMenuAction
    \/ StopMenuAction
    \/ RestartOrToggle
    \/ ExitApp
    \/ StopServerCheck
    \/ StopServerTerminate
    \/ StopServerClear
    \/ StartServerCheck
    \/ StartServerPopen
    \/ WatchdogRead
    \/ WatchdogPoll
    \/ ServerExits

SpecTray == InitTray /\ [][NextTray]_vars

----------------------------------------------------------------------------
(* Properties of the booking ledger and the balance *)

Done(w, kind) == req[w].pc = "done" /\ req[w].kind = kind

\* the occupant of the cell a request names, when the row exists
HasCell(bf, r) == r.row \in DOMAIN bf
CellOf(bf, r) == bf[r.row].player[r.court]

\* two create-booking requests of different members for the same cell, which
\* was empty before either was accepted, both past validation and credit check
RacingPair(v, w) ==
    /\ v # w
    /\ nreq = 2
    /\ Done(v, "add_booking") /\ Done(w, "add_booking")
    /\ req[v].mem # req[w].mem
    /\ req[v].row = req[w].row /\ req[v].court = req[w].court
    /\ HasCell(BookfileTable, req[v]) /\ IsEmptyCell(CellOf(BookfileTable, req[v]))
    /\ ~IsPast(req[v].row[1], req[v].row[2])
    /\ req[v].credit0 > 0 /\ req[w].credit0 > 0

Won(w) ==
    /\ req[w].status = "success"
    /\ req[w].resp = "success"
    /\ CellOf(bookfile, req[w]) = Some(req[w].mem)

\* C1: of two create-booking requests by different members for the same
\* empty cell, under every interleaving, exactly one ends in success and
\* holds the cell and the other ends with already_booked
C1_ExactlyOneWinner ==
    \A v, w \in Workers :
        RacingPair(v, w) =>
            \/ Won(v) /\ ~Won(w) /\ req[w].resp = "already_booked"
               /\ req[w].status # "success"
            \/ Won(w) /\ ~Won(v) /\ req[v].resp = "already_booked"
               /\ req[v].status # "success"

\* both requests passed the pre-check and the loser lost at the conditional
\* update, while the two were in flight together
C1_Witness ==
    \E v, w \in Workers :
        /\ RacingPair(v, w)
        /\ ~req[v].solo /\ ~req[w].solo
        /\ Won(v)
        /\ req[w].status = "already_booked"

ReleaseStep(w) == req[w].pc = "del_release" /\ req'[w].pc # "del_release"

\* C2: a cancel naming member M empties the cell and goes on to success
\* only when the occupant is M; when the cell is held by another member, is
\* empty or has no row, the ledger is unchanged and the answer is not found
C2_ReleaseOnlyByOccupant ==
    [][\A w \in Workers :
        /\ ReleaseStep(w) =>
             IF HasCell(bookfile, req[w])
                /\ CellOf(bookfile, req[w]) = Some(req[w].mem)
             THEN /\ bookfile' = SetCell(bookfile, req[w].row, req[w].court, None)
                  /\ req'[w].status = "released"
                  /\ req'[w].resp = "none"
             ELSE /\ bookfile' = bookfile
                  /\ req'[w].resp = "not_found"
                  /\ req'[w].status # "released"
        /\ (req'[w].kind = "delete_booking" /\ req'[w].resp = "success")
             => req'[w].status = "released"
      ]_vars

\* a cancel naming a member who is not the occupant of a taken cell has
\* answered not found and the occupant is still there
C2_Witness ==
    \E w \in Workers :
        /\ Done(w, "delete_booking")
        /\ req[w].resp = "not_found"
        /\ HasCell(bookfile, req[w])
        /\ ~IsEmptyCell(CellOf(bookfile, req[w]))
        /\ CellOf(bookfile, req[w]) # Some(req[w].mem)

\* request w ran alone, right after the request summarised in req[w].prev,
\* which also ran alone, and nothing was accepted since
RightAfter(w) ==
    /\ req[w].solo
    /\ req[w].id = nreq
    /\ req[w].prev.solo
    /\ req[w].prev.id + 1 = req[w].id

\* a create-booking for the cell that a different member has just released
RebookAfterRelease(w) ==
    /\ Done(w, "add_booking")
    /\ RightAfter(w)
    /\ req[w].prev.kind = "delete_booking"
    /\ req[w].prev.resp = "success"
    /\ req[w].prev.row = req[w].row /\ req[w].prev.court = req[w].court
    /\ req[w].prev.mem # req[w].mem
    /\ req[w].before > 0
    /\ ~IsPast(req[w].row[1], req[w].row[2])

\* C3: after a successful cancel of a cell by its occupant, an immediately
\* following create-booking for that cell by a different member with a
\* positive balance, for a slot not in the past, succeeds and holds the cell
C3_RebookSucceeds ==
    \A w \in Workers :
        RebookAfterRelease(w) => Won(w)

C3_Witness ==
    \E w \in Workers : RebookAfterRelease(w) /\ Won(w)

\* a successful cancellation right after a successful booking, same member
RoundTrip(w) ==
    /\ Done(w, "delete_booking")
    /\ req[w].resp = "success"
    /\ RightAfter(w)
    /\ req[w].prev.kind = "add_booking"
    /\ req[w].prev.resp = "success"
    /\ req[w].prev.mem = req[w].mem

\* C9: from balance b, a successful booking charged c followed by a
\* successful cancellation charged f leaves the stored balance at b - c - f;
\* from 100.00 with 10.00 and 5.00 that is 85.00
C9_RoundTripBalance ==
    \A w \in Workers :
        RoundTrip(w) =>
            /\ clublist[req[w].mem].credit
                 = Some(req[w].prev.before - req[w].prev.cost - req[w].cost)
            /\ (req[w].prev.before = 10000 /\ req[w].prev.cost = 1000
                /\ req[w].cost = 500)
                 => clublist[req[w].mem].credit = Some(8500)

C9_Witness ==
    \E w \in Workers :
        /\ RoundTrip(w)
        /\ req[w].prev.before = 10000 /\ req[w].prev.cost = 1000
        /\ req[w].cost = 500
        /\ clublist[req[w].mem].credit = Some(8500)

\* the bookings member m holds on one day in cells of one period
Held(bf, m, day, period) ==
    {<<row, c>> \in (DOMAIN bf) \X CourtNos :
        /\ row[1] = day
        /\ bf[row].player[c] = Some(m)
        /\ bf[row].code[c] = period}

\* C10: a member whose daily cap for period P is n and who holds n bookings
\* in P on a date cannot obtain another one in P on that date: no member
\* ever holds more bookings in a capped period than the cap
C10_DailyCapEnforced ==
    \A m \in Members, day \in Days, p \in PeriodIds :
        clublist[m].book[p] > 0 =>
            Cardinality(Held(bookfile, m, day, p)) <= clublist[m].book[p]

\* a create-booking that got past validation and the credit check, ran alone
\* and is the latest request
Attempted(w) ==
    /\ Done(w, "add_booking")
    /\ req[w].solo /\ req[w].id = nreq
    /\ req[w].resp \notin {"bad_date", "bad_slot", "past", "no_credit"}

\* C11: a create-booking whose (date, time) row does not exist ends in not
\* found, and one that ends in already_booked names an existing row whose
\* cell is occupied
C11_MissingRowNotFound ==
    \A w \in Workers :
        Attempted(w) =>
            /\ ~HasCell(bookfile, req[w]) => req[w].resp = "not_found"
            /\ req[w].resp = "already_booked" =>
                  /\ HasCell(bookfile, req[w])
                  /\ ~IsEmptyCell(CellOf(bookfile, req[w]))

\* worker w takes a step of its own request
OwnStep(w) == req[w].pc # req'[w].pc

CreditStep(w) == req[w].pc = "add_credit" /\ OwnStep(w)

\* C15: a create-booking by a member whose stored balance is zero or less is
\* rejected at the credit check, and neither that step nor the rest of the
\* request writes the ledger or the balance
C15_NoCreditRejected ==
    [][\A w \in Workers :
        /\ (CreditStep(w) /\ ProfileCredit(clublist, req[w].mem) <= 0) =>
              /\ req'[w].resp = "no_credit"
              /\ req'[w].pc = "audit"
              /\ req'[w].status = "none"
              /\ bookfile' = bookfile /\ clublist' = clublist
        /\ (req[w].pc = "audit" /\ req[w].resp = "no_credit" /\ OwnStep(w)) =>
              /\ req'[w].pc = "done"
              /\ req'[w].status = "none"
              /\ bookfile' = bookfile /\ clublist' = clublist
      ]_vars

\* a request of a member with balance zero for an empty cell was rejected,
\* and the cell is still empty and the balance still zero
C15_Witness ==
    \E w \in Workers :
        /\ Done(w, "add_booking")
        /\ req[w].resp = "no_credit"
        /\ HasCell(bookfile, req[w]) /\ IsEmptyCell(CellOf(bookfile, req[w]))
        /\ clublist[req[w].mem].credit = Some(0)

\* C16: the step on which a create-booking gets its already_booked answer,
\* at the pre-check or at the conditional update, and the audit step that
\* follows, change neither the ledger nor any balance, and the request has
\* charged nothing
C16_ConflictLeavesNoTrace ==
    [][\A w \in Workers :
        (/\ OwnStep(w)
         /\ req'[w].kind = "add_booking"
         /\ req'[w].resp = "already_booked")
          =>
            /\ bookfile' = bookfile
            /\ clublist' = clublist
            /\ req'[w].status # "success"
            /\ req'[w].cost = 0
      ]_vars

\* a request lost at the conditional update to a booking made after its own
\* pre-check: the winner holds the cell and the loser's balance is as before
C16_Witness ==
    \E w \in Workers :
        /\ Done(w, "add_booking")
        /\ req[w].resp = "already_booked"
        /\ req[w].status = "already_booked"
        /\ HasCell(bookfile, req[w])
        /\ ~IsEmptyCell(CellOf(bookfile, req[w]))
        /\ CellOf(bookfile, req[w]) # Some(req[w].mem)
        /\ clublist[req[w].mem].credit = Some(req[w].before)

\* a create-booking whose conditional update succeeded and whose financial
\* step did not
PartialFailure(w) ==
    /\ Done(w, "add_booking")
    /\ req[w].status = "success"
    /\ req[w].resp # "success"

\* C17: when the reserve succeeded and the balance update failed, the member
\* still holds the cell and the answer is the partial-failure result, which
\* no request gets whose reserve did not succeed
C17_PartialFailureReported ==
    \A w \in Workers :
        /\ PartialFailure(w) =>
              /\ req[w].resp = "fin_failed"
              /\ CellOf(bookfile, req[w]) = Some(req[w].mem)
        /\ (Done(w, "add_booking") /\ req[w].resp = "fin_failed") =>
              req[w].status = "success"

\* the write of the balance failed after the reserve: the cell is held and
\* the balance is as it was
C17_Witness ==
    \E w \in Workers :
        /\ PartialFailure(w)
        /\ req[w].resp = "fin_failed"
        /\ courts = CourtsTable
        /\ CellOf(bookfile, req[w]) = Some(req[w].mem)
        /\ clublist[req[w].mem].credit = Some(req[w].before)

\* the requests that have completed
Completed == nreq - Cardinality({w \in Workers : InFlight(w)})

AuditRecord(r) == [mem |-> r.mem, row |-> r.row, court |-> r.court,
                   activity |-> Activity(r)]

C20_SingleCreditWriter ==
    [][\A m \in Members :
        clublist'[m].credit # clublist[m].credit =>
            \E w \in Workers :
                /\ req[w].pc = "fin_update" /\ OwnStep(w)
                /\ req[w].mem = m
      ]_vars

----------------------------------------------------------------------------
(* Properties of the waiting list *)

\* request w is the second of two add requests by one member for one
\* (date, slot), run one after the other, the first of which added the member
SecondAdd(w) ==
    /\ Done(w, "wl_add")
    /\ RightAfter(w)
    /\ req[w].prev.kind = "wl_add"
    /\ req[w].prev.resp = "added"
    /\ req[w].prev.mem = req[w].mem
    /\ req[w].prev.date = req[w].date
    /\ req[w].prev.row[2] = req[w].row[2]

EntriesOf(entries, player_id) ==
    {i \in 1..Len(entries) : entries[i].player_id = player_id}

\* C4: two add requests by the same member for the same (date, slot), one
\* after the other, leave exactly one stored entry for the member and the
\* second one answers already in list
C4_AddIdempotent ==
    \A w \in Workers :
        SecondAdd(w) =>
            /\ req[w].resp = "already_in_list"
            /\ Cardinality(EntriesOf(SlotList(waitfile, req[w].date, req[w].row[2]),
                                     req[w].mem)) = 1

CleanupSaveStep(w) ==
    /\ req[w].pc = "wl_cleanup_save" /\ req'[w].pc # "wl_cleanup_save"
    /\ req[w].solo

StoredDate(k) == k.fmt = "dmy"
BeforeToday(k) == DayNo[k.day] < DayNo["today"]

\* C5: cleanup removes every date key earlier than today and keeps every
\* key of today or later with its slot lists unchanged
C5_CleanupDropsPastOnly ==
    [][\A w \in Workers :
        CleanupSaveStep(w) =>
            /\ \A k \in DOMAIN waitfile :
                 (StoredDate(k) /\ BeforeToday(k)) => k \notin DOMAIN waitfile'
            /\ \A k \in DOMAIN waitfile :
                 (StoredDate(k) /\ ~BeforeToday(k)) =>
                    k \in DOMAIN waitfile' /\ waitfile'[k] = waitfile[k]
            /\ DOMAIN waitfile' \subseteq DOMAIN waitfile
      ]_vars

\* the cleanup of the first request has run on the three-day file: the key
\* of yesterday is gone, the keys of today and tomorrow are as they were
C5_Witness ==
    \E w \in Workers :
        /\ nreq = 1
        /\ req[w].pc = "wl_add_load"
        /\ DOMAIN waitfile = {Today, DateStr("dmy", "tomorrow")}
        /\ \A k \in DOMAIN waitfile : waitfile[k] = ThreeDayFile[k]

\* the first cancellation has finished its notification step
Notified(w) ==
    /\ nreq = 1
    /\ req[w].kind = "delete_booking"
    /\ req[w].status = "released"
    /\ req[w].pc \in {"fin_compute", "fin_update", "fin_persist", "audit", "done"}

\* the freed slot held two different members, neither the cancelling one,
\* each with a complete entry
TwoWaiting(w) ==
    /\ Len(req[w].seen) = 2
    /\ req[w].seen[1].player_id # req[w].seen[2].player_id
    /\ \A i \in 1..2 : req[w].seen[i].named
                        /\ req[w].seen[i].player_id # req[w].mem

Mail(m, ok) == [to |-> m, ok |-> ok]

\* C6: the canceller is not on the slot's list, the list holds A then B and
\* every send succeeds: A and B each got one send, in stored order, and the
\* slot key is gone from the store
C6_BothNotifiedAndRemoved ==
    \A w \in Workers :
        (/\ Notified(w)
         /\ TwoWaiting(w)
         /\ \A i \in 1..Len(outbox) : outbox[i].ok)
          =>
            /\ outbox = <<Mail(req[w].seen[1].player_id, TRUE),
                          Mail(req[w].seen[2].player_id, TRUE)>>
            /\ ~HasSlot(waitfile, NotifyDate(req[w]), NotifyTime(req[w]))

C6_Witness ==
    \E w \in Workers :
        /\ Notified(w)
        /\ TwoWaiting(w)
        /\ Len(outbox) = 2 /\ outbox[1].ok /\ outbox[2].ok
        /\ ~HasSlot(waitfile, NotifyDate(req[w]), NotifyTime(req[w]))

\* C7: with waiting members A then B, A's send failing and B's succeeding,
\* the persisted list of the slot after the cancellation contains A and
\* does not contain B
C7_FailedSendKept ==
    \A w \in Workers :
        (/\ Notified(w) /\ req[w].pc = "done"
         /\ TwoWaiting(w)
         /\ outbox = <<Mail(req[w].seen[1].player_id, FALSE),
                       Mail(req[w].seen[2].player_id, TRUE)>>)
          =>
            LET stored == SlotList(waitfile, NotifyDate(req[w]), NotifyTime(req[w]))
            IN  /\ InList(stored, req[w].seen[1].player_id)
                /\ ~InList(stored, req[w].seen[2].player_id)

\* C8: when the cancelling member is on the waiting list of the freed slot,
\* no send goes to that member and the member's entry is still stored
C8_SelfCancelKept ==
    \A w \in Workers :
        (/\ Notified(w) /\ req[w].pc = "done"
         /\ InList(req[w].seen, req[w].mem))
          =>
            /\ \A i \in 1..Len(outbox) : outbox[i].to # req[w].mem
            /\ InList(SlotList(waitfile, NotifyDate(req[w]), NotifyTime(req[w])),
                      req[w].mem)

\* a remove request that ran alone and is the latest request
RemoveDone(w) ==
    /\ Done(w, "wl_remove")
    /\ req[w].solo /\ req[w].id = nreq

\* C12: remove answers removed only when the member had an entry in the
\* (date, slot) list, and the entry is then gone; when the member had none,
\* also when the list holds only other members, it answers not found and
\* nothing is saved
C12_RemoveReportsTruthfully ==
    \A w \in Workers :
        RemoveDone(w) =>
            /\ req[w].resp = "removed" =>
                  /\ InList(req[w].seen, req[w].mem)
                  /\ ~InList(SlotList(waitfile, req[w].date, req[w].row[2]),
                             req[w].mem)
            /\ ~InList(req[w].seen, req[w].mem) =>
                  /\ req[w].resp = "not_found"
                  /\ req[w].status # "saved"

\* C13: in every state of the waiting list file, under every interleaving
\* of add, remove, cleanup and cancellation notification, no (date, slot)
\* list holds two entries with the same member number
C13_NoDuplicateEntries ==
    \A d \in DOMAIN waitfile : \A t \in DOMAIN waitfile[d] :
        \A i, j \in 1..Len(waitfile[d][t]) :
            i # j => waitfile[d][t][i].player_id # waitfile[d][t][j].player_id

\* two add requests of one member for one slot were in flight together, both
\* answered added, and the stored list holds the member once
C13_Witness ==
    \E v, w \in Workers :
        /\ v # w
        /\ Done(v, "wl_add") /\ Done(w, "wl_add")
        /\ ~req[v].solo /\ ~req[w].solo
        /\ req[v].mem = req[w].mem
        /\ req[v].date = req[w].date /\ req[v].row[2] = req[w].row[2]
        /\ req[v].resp = "added" /\ req[w].resp = "added"
        /\ Cardinality(EntriesOf(SlotList(waitfile, req[w].date, req[w].row[2]),
                                 req[w].mem)) = 1

\* the key a request stored under is one that cleanup keeps
KeptDate(d) == StoredDate(d) /\ ~BeforeToday(d)

\* request w added a member right after another member was added to the same
\* (date, slot), each request running alone
SerialAdds(w) ==
    /\ Done(w, "wl_add") /\ req[w].resp = "added"
    /\ RightAfter(w)
    /\ req[w].prev.kind = "wl_add" /\ req[w].prev.resp = "added"
    /\ req[w].prev.mem # req[w].mem
    /\ req[w].prev.date = req[w].date /\ req[w].prev.row[2] = req[w].row[2]
    /\ KeptDate(req[w].date)

\* the two requests so far are adds of different members to the same
\* (date, slot), in flight together, and both answered added
ConcurrentAdds(v, w) ==
    /\ v # w /\ nreq = 2
    /\ Done(v, "wl_add") /\ Done(w, "wl_add")
    /\ ~req[v].solo /\ ~req[w].solo
    /\ req[v].resp = "added" /\ req[w].resp = "added"
    /\ req[v].mem # req[w].mem
    /\ req[v].date = req[w].date /\ req[v].row[2] = req[w].row[2]
    /\ KeptDate(req[w].date)

Stored(r) == InList(SlotList(waitfile, r.date, r.row[2]), r.mem)

\* C14: the store does not serialize mutations.  Adds that run one after the
\* other both stay stored, and of two concurrent adds that both answered
\* added the entry of the last save is stored: an entry is lost only through
\* the interleaving of load and save
C14_LossOnlyByInterleaving ==
    /\ \A w \in Workers :
          SerialAdds(w) =>
              /\ Stored(req[w])
              /\ InList(SlotList(waitfile, req[w].date, req[w].row[2]),
                        req[w].prev.mem)
    /\ \A v, w \in Workers :
          ConcurrentAdds(v, w) => Stored(req[v]) \/ Stored(req[w])

\* the lost update: two concurrent adds by different members both answered
\* added and only one of the two entries is stored
C14_Witness ==
    \E v, w \in Workers :
        /\ ConcurrentAdds(v, w)
        /\ Stored(req[w])
        /\ ~Stored(req[v])

\* C18: when the notification step raised after the cell was released, the
\* cancellation still ran the financial step and answered success, the
\* stored balance is the one it computed, and the cell is still released
C18_NotificationFailureTolerated ==
    \A w \in Workers :
        (Done(w, "delete_booking") /\ req[w].raised) =>
            /\ req[w].status = "released"
            /\ req[w].resp = "success"
            /\ req[w].cost > 0
            /\ clublist[req[w].mem].credit = Some(req[w].before - req[w].cost)
            /\ CellOf(bookfile, req[w]) = None

\* a send failed, the store of the kept entry raised, and the cancellation
\* completed with success
C18_Witness ==
    \E w \in Workers :
        /\ Done(w, "delete_booking") /\ req[w].raised
        /\ \E i \in 1..Len(outbox) : ~outbox[i].ok
        /\ req[w].resp = "success"
        /\ CellOf(bookfile, req[w]) = None

----------------------------------------------------------------------------
(* Properties of the cancellation fee *)

\* the cancellation fee of a period: the ICANCEL column of that period
CancelFee(ct, period_id) == Val(ct[1].icancel[period_id])

\* a successful cancellation that ran alone and is the latest request
CancelledAlone(w) ==
    /\ Done(w, "delete_booking")
    /\ req[w].resp = "success"
    /\ req[w].solo /\ req[w].id = nreq

\* C21: the fee debited by a cancellation is the fee of the period supplied
\* in the request: with cancellation fees 5.00 for period 1 and 7.00 for
\* period 2, cancelling with period p debits exactly the fee of p
C21_CancelFeeOfPeriod ==
    \A w \in Workers :
        CancelledAlone(w) =>
            ProfileCredit(clublist, req[w].mem)
                = req[w].before - CancelFee(courts, req[w].period)

----------------------------------------------------------------------------
(* Properties of the limit checks *)

LimitsDone(w, kind) ==
    Done(w, kind) /\ req[w].resp \in {"success", "failed"}

HasLimit(limits, period_id, cap) ==
    \E k \in 1..Len(limits) :
        limits[k].period_id = period_id /\ limits[k].limit = cap

\* C22: the cap in column i is the cap compared against the member's count
\* of period i, and a zero in column j leaves period j without a limit, for
\* every combination of zero and non-zero caps
C22_CapOfColumnForPeriod ==
    \A w \in Workers :
        LimitsDone(w, "daily_limits") =>
            \A i \in 1..Len(get_periods) :
                LET cap == clublist[req[w].mem].book[i]
                IN  IF cap = 0
                    THEN \A k \in 1..Len(req[w].limits) :
                            req[w].limits[k].period_id # get_periods[i]
                    ELSE HasLimit(req[w].limits, get_periods[i], cap)

\* a ledger row of today whose start time has passed
Elapsed(row) == row[1] = Clock.day /\ row[2] < Clock.time

CountsOver(limits, rows, mem) ==
    \A k \in 1..Len(limits) :
        limits[k].bookings_count
            = SumRows(bookfile, rows, mem, limits[k].period_id)

\* C28: the daily check counts the rows of the date asked for except the
\* rows of today whose start time has elapsed; the weekly check counts every
\* row of the inclusive date range, elapsed or not
C28_ElapsedRowsDailyOnly ==
    \A w \in Workers :
        /\ LimitsDone(w, "daily_limits") =>
              CountsOver(req[w].limits,
                         {row \in DOMAIN bookfile :
                             row[1] = req[w].date.day /\ ~Elapsed(row)},
                         req[w].mem)
        /\ LimitsDone(w, "weekly_limits") =>
              CountsOver(req[w].limits,
                         {row \in DOMAIN bookfile :
                             /\ DayNo[row[1]] >= DayNo[req[w].date.day]
                             /\ DayNo[row[1]] <= DayNo[req[w].end_date.day]},
                         req[w].mem)

\* a daily check of today left the two period-1 cells of the elapsed slot
\* out, and a weekly check of yesterday..tomorrow counted all five
C28_Witness ==
    \E v, w \in Workers :
        /\ LimitsDone(v, "daily_limits")
        /\ req[v].date.day = Clock.day
        /\ req[v].limits[1].period_id = 1
        /\ req[v].limits[1].bookings_count = 2
        /\ SumRows(bookfile, {row \in DOMAIN bookfile : Elapsed(row)},
                   req[v].mem, 1) = 2
        /\ LimitsDone(w, "weekly_limits")
        /\ req[w].date.day = "yesterday" /\ req[w].end_date.day = "tomorrow"
        /\ req[w].limits[1].period_id = 1
        /\ req[w].limits[1].bookings_count = 5

----------------------------------------------------------------------------
(* Properties of the notification dispatcher *)

\* C23: the dispatcher removes an entry only after an email to that entry's
\* member was sent successfully: an entry of the freed slot for which no
\* send succeeded, one without a name among them, is still in the list after
\* the notification step of the cancellation
C23_RemovedOnlyAfterSend ==
    \A w \in Workers :
        Notified(w) =>
            \A i \in 1..Len(req[w].seen) :
                LET e == req[w].seen[i]
                IN  (\A k \in 1..Len(outbox) : outbox[k] # Mail(e.player_id, TRUE))
                      => InList(SlotList(waitfile, NotifyDate(req[w]),
                                         NotifyTime(req[w])),
                                e.player_id)

----------------------------------------------------------------------------
(* Properties of the request validation *)

\* a booking request with an absent field, a date that is not YYYY-MM-DD or
\* a slot_id outside 1..N
Invalid(r) ==
    /\ r.kind \in {"add_booking", "delete_booking"}
    /\ \/ r.mem = 0 \/ r.court = 0 \/ r.date = NoDate \/ IsNone(r.slot_id)
       \/ r.kind = "delete_booking" /\ r.period = 0
       \/ r.date.fmt # "iso"
       \/ Val(r.slot_id) \notin 1..Len(get_time_slots)

\* the answers with a 4xx status: 400, 403, 404 and 409
Rejected == {"missing", "bad_date", "bad_slot", "past", "no_credit",
             "not_found", "already_booked"}

\* C24: a create- or cancel-booking request with a missing field, a
\* malformed date or a slot_id that is not in 1..N, "0" and negative values
\* included, is rejected with a 4xx result, and no step of it changes a
\* ledger cell, a balance or a waiting-list entry
C24_InvalidRequestRejected ==
    [][\A w \in Workers :
        (OwnStep(w) /\ Invalid(req'[w])) =>
            /\ bookfile' = bookfile
            /\ clublist' = clublist
            /\ waitfile' = waitfile
            /\ req'[w].pc \in {"audit", "done"} => req'[w].resp \in Rejected
      ]_vars

----------------------------------------------------------------------------
(* Properties of a cancellation whose release fails *)

HeldBy(bf, r) == HasCell(bf, r) /\ CellOf(bf, r) = Some(r.mem)

\* C25: a cancellation whose release fails, the cell not being held by the
\* named member, answers not found at the release, and neither that step nor
\* any later step of the request sends a notification or changes the waiting
\* list or a balance
C25_FailedReleaseFrame ==
    [][\A w \in Workers :
        /\ (ReleaseStep(w) /\ ~HeldBy(bookfile, req[w])) =>
              /\ req'[w].resp = "not_found"
              /\ req'[w].pc = "audit"
        /\ (OwnStep(w) /\ req'[w].kind = "delete_booking"
              /\ req'[w].status # "released") =>
              /\ outbox' = outbox
              /\ waitfile' = waitfile
              /\ clublist' = clublist
              /\ bookfile' = bookfile
      ]_vars

\* member 1 asked to cancel the cell that member 2 holds in a slot with a
\* waiting list: not found, no mail, the list and the balances as they were
C25_Witness ==
    \E w \in Workers :
        /\ nreq = 1
        /\ Done(w, "delete_booking")
        /\ req[w].resp = "not_found"
        /\ HasCell(bookfile, req[w]) /\ CellOf(bookfile, req[w]) = Some(2)
        /\ req[w].mem = 1
        /\ HasSlot(waitfile, NotifyDate(req[w]), NotifyTime(req[w]))
        /\ outbox = <<>>
        /\ clublist = ClublistTable

----------------------------------------------------------------------------
(* Properties of the pre-check *)

PrecheckStep(w) == req[w].pc = "add_precheck" /\ OwnStep(w)

\* C26: for every value a cell of an existing row can hold, the pre-check of
\* add_booking lets the request through exactly when the conditional update
\* would succeed on that value, and that is for null, 0 and the restricted
\* marker -9 and for no member number
C26_PrecheckAgreesWithUpdate ==
    [][\A w \in Workers :
        (PrecheckStep(w) /\ HasCell(bookfile, req[w])) =>
            LET v == CellOf(bookfile, req[w])
                through == req'[w].pc = "add_reserve"
                result == update_internet_bookings(bookfile, req[w].row,
                                                   req[w].court, req[w].mem)
            IN  /\ through <=> result.status = "success"
                /\ through <=> v \in {None, Some(0), Some(RESTRICTED)}
                /\ ~through => req'[w].resp = "already_booked"
      ]_vars

\* the pre-check has let requests through on a cell that holds 0 and on one
\* that holds the restricted marker
C26_Witness ==
    \E v, w \in Workers :
        /\ req[v].pc = "add_reserve" /\ CellOf(bookfile, req[v]) = Some(0)
        /\ req[w].pc = "add_reserve"
        /\ CellOf(bookfile, req[w]) = Some(RESTRICTED)

----------------------------------------------------------------------------
(* Properties of the audit record *)

SameBooking(a, b) ==
    /\ a.kind = "add_booking" /\ b.kind = "add_booking"
    /\ a.mem = b.mem /\ a.row = b.row /\ a.court = b.court

\* C27: the audit record of a create-booking request captures its outcome:
\* of two requests by the same member for the same date-time and court, one
\* successful and one rejected or conflicting, the two records differ
C27_AuditCapturesOutcome ==
    /\ \A w \in Workers :
          (req[w].pc = "done" /\ req[w].prev.id > 0
             /\ SameBooking(req[w], req[w].prev)
             /\ (req[w].resp = "success") # (req[w].prev.resp = "success"))
            => AuditRecord(req[w]) # AuditRecord(req[w].prev)
    /\ \A v, w \in Workers :
          (req[v].pc = "done" /\ req[w].pc = "done" /\ SameBooking(req[v], req[w])
             /\ req[v].resp = "success" /\ req[w].resp # "success"
             /\ Len(internetlog) = 2)
            => internetlog[1] # internetlog[2]

----------------------------------------------------------------------------
(* Properties of the debit *)

Booked(r, m) == r.kind = "add_booking" /\ r.mem = m /\ r.resp = "success"

\* the successful create-booking requests of member m among the two that
\* have been accepted and have completed
BookedBy(m) ==
    {r \in {Summary(req[w]) : w \in Workers} \cup {req[w].prev : w \in Workers} :
        r.id \in 1..2 /\ Booked(r, m)}

\* C29: each successful booking debits the member exactly once: when the k
\* create-booking requests of a member have all succeeded, on k different
\* cells and in whatever interleaving, the stored balance is the initial
\* balance minus k times the booking cost
C29_DebitPerBooking ==
    (nreq = 2 /\ \A w \in Workers : ~InFlight(w)) =>
        \A m \in BookingMembers :
            (/\ Cardinality({r.id : r \in BookedBy(m)}) = 2
             /\ \A w \in Workers :
                  req[w].id > 0 => Booked(req[w], m))
              => ProfileCredit(clublist, m)
                    = ProfileCredit(ClublistTable, m) - 2 * 1000

----------------------------------------------------------------------------
(* Properties of the tray launcher *)

\* C30: once a stop_server requested from the menu has completed, no server
\* process is running and none is started until a start, restart or
\* logging-toggle action: under every interleaving of the watchdog with
\* stop_server, the watchdog starts no server process after the stop
C30_StoppedStaysStopped ==
    tray.stopped => tray.alive = {}

====
